---- MODULE Spec2Model ----
(***************************************************************************)
(* A model of podcast_downloader: the file-name templater (rss.py), the    *)
(* selection of missing episodes and the per-feed download loop            *)
(* (utils.py process_podcast_feed), the layering of the configuration      *)
(* (parameters.py, configuration.py) and the run over all feeds            *)
(* (utils.py main).                                                        *)
(*                                                                         *)
(* Strings that the program cuts or measures (file names, titles) are      *)
(* sequences of one-character strings.  A Python value that may be None    *)
(* is None == <<>> or Some(v) == <<v>>.  A Python dict is a function from  *)
(* its keys to such wrapped values.                                        *)
(***************************************************************************)
EXTENDS Integers, Sequences, FiniteSets, TLC

VARIABLES
    pc,          \* position of the program
    sel,         \* SpecSelect: the inputs and the result of one selection
    run,         \* the run: configuration, counters, statistics, log
    cur          \* the feed being processed by process_podcast_feed

vars == <<pc, sel, run, cur>>

-----------------------------------------------------------------------------
(* Bounds of the model *)

\* longest feed (number of entities) the selection is explored on
MaxFeedLen == 3

\* most podcasts in the configured list
MaxFeeds == 2

\* largest downloads_limit / download_delay value tried
MaxLimit == 2

\* most runs of main in a row over the same directory
MaxRuns == 2

\* longest file name limit_file_name is explored on
MaxNameLen == 4

\* most raw entries of a feed the normalisation is explored on
MaxRawLen == 2

-----------------------------------------------------------------------------
(* Python values *)

None == <<>>
Some(v) == <<v>>

\* s[::-1]
Reverse(s) == [i \in 1..Len(s) |-> s[Len(s) + 1 - i]]

\* s[:n], Python slice semantics (a negative n counts from the end)
PyPrefix(s, n) ==
    LET k == IF n >= 0 THEN (IF n < Len(s) THEN n ELSE Len(s))
                       ELSE (IF Len(s) + n > 0 THEN Len(s) + n ELSE 0)
    IN SubSeq(s, 1, k)

\* s[-n:] for n >= 0, Python slice semantics (s[-0:] is the whole of s)
PySuffix(s, n) ==
    IF n = 0 \/ n >= Len(s) THEN s ELSE SubSeq(s, Len(s) - n + 1, Len(s))

\* s is a prefix of t
IsPrefix(s, t) == Len(s) <= Len(t) /\ s = SubSeq(t, 1, Len(s))

\* positions of character c in s
Positions(s, c) == { i \in 1..Len(s) : s[i] = c }

SetMax(S) == CHOOSE x \in S : \A y \in S : y <= x

\* str.rpartition(".") as <<head, sep, tail>>
rpartition(s, c) ==
    IF Positions(s, c) = {} THEN << <<>>, <<>>, s >>
    ELSE LET p == SetMax(Positions(s, c))
         IN << SubSeq(s, 1, p - 1), <<c>>, SubSeq(s, p + 1, Len(s)) >>

\* str.strip(): leading and trailing blanks removed
RECURSIVE lstrip(_)
lstrip(s) == IF s # <<>> /\ Head(s) = " " THEN lstrip(Tail(s)) ELSE s

strip(s) == Reverse(lstrip(Reverse(lstrip(s))))

\* itertools.takewhile(P, s) where keep[i] tells whether P(s[i])
RECURSIVE takewhile(_, _)
takewhile(keep, s) ==
    IF s = <<>> \/ ~Head(keep) THEN <<>>
    ELSE <<Head(s)>> \o takewhile(Tail(keep), Tail(s))

\* filter(P, s) where keep[i] tells whether P(s[i])
RECURSIVE filter(_, _)
filter(keep, s) ==
    IF s = <<>> THEN <<>>
    ELSE (IF Head(keep) THEN <<Head(s)>> ELSE <<>>) \o filter(Tail(keep), Tail(s))

\* itertools.islice(s, n)
islice(s, n) == SubSeq(s, 1, IF n < Len(s) THEN n ELSE Len(s))

\* the set of the elements of a sequence
Range(s) == { s[i] : i \in 1..Len(s) }

\* dict.update: the keys of other overwrite those of base
dict_update(base, other) ==
    [k \in (DOMAIN base) \cup (DOMAIN other) |->
        IF k \in DOMAIN other THEN other[k] ELSE base[k]]

\* dict.get(key, default)
dict_get(d, k, default) == IF k \in DOMAIN d THEN d[k] ELSE default

\* str.endswith
endswith(file_name, ext) ==
    Len(file_name) >= Len(ext)
    /\ SubSeq(file_name, Len(file_name) - Len(ext) + 1, Len(file_name)) = ext

\* the empty dict
EmptyDict == [k \in {} |-> None]

-----------------------------------------------------------------------------
(* rss.py: the file-name templater *)

\* characters sanitize_for_filename replaces by a blank
ReservedChars == {"/", "\\", ":", "<", ">", "*", "\"", "?", "|"}

sanitize_for_filename(value) ==
    strip([i \in 1..Len(value) |->
              IF value[i] \in ReservedChars THEN " " ELSE value[i]])

\* a link is modelled by the two parts _parse_url_path gives of it
link_to_file_name(link) == link.file_name
link_to_extension(link) == link.file_extension

\* published_date.strftime("%Y%m%d"), as characters
Digit(n) == CASE n = 0 -> "0" [] n = 1 -> "1" [] n = 2 -> "2" [] n = 3 -> "3"
              [] n = 4 -> "4" [] n = 5 -> "5" [] n = 6 -> "6" [] n = 7 -> "7"
              [] n = 8 -> "8" [] n = 9 -> "9"

strftime_Ymd(d) ==
    << Digit((d.year \div 1000) % 10), Digit((d.year \div 100) % 10),
       Digit((d.year \div 10) % 10), Digit(d.year % 10),
       Digit((d.month \div 10) % 10), Digit(d.month % 10),
       Digit((d.day \div 10) % 10), Digit(d.day % 10) >>

\* the value one token of a template is replaced by
TokenValue(token, entity) ==
    CASE token = "%title%" -> sanitize_for_filename(entity.title)
      [] token = "%file_name%" -> link_to_file_name(entity.link)
      [] token = "%file_extension%" -> link_to_extension(entity.link)
      [] token = "%publish_date%" -> strftime_Ymd(entity.published_date)
      [] OTHER -> <<token>>

\* a template is a sequence of tokens: a placeholder or one literal character
RECURSIVE RenderTokens(_, _)
RenderTokens(name_template, entity) ==
    IF name_template = <<>> THEN <<>>
    ELSE TokenValue(Head(name_template), entity)
            \o RenderTokens(Tail(name_template), entity)

file_template_to_file_name(name_template, entity) ==
    strip(RenderTokens(name_template, entity))

\* the cut forgets the dot it puts back between name and extension
limit_file_name_without_separator(maximum_length, file_name) ==
    IF Len(file_name) <= maximum_length THEN file_name
    ELSE LET parts == rpartition(file_name, ".")
             name_part == parts[1]
             extension == parts[3]
             available_length_for_name == maximum_length - Len(extension)
         IN IF extension = <<>> \/ Len(extension) > maximum_length
              THEN PyPrefix(file_name, maximum_length)
            ELSE PyPrefix(name_part, available_length_for_name) \o <<".">> \o extension

limit_file_name(maximum_length, file_name) ==
    IF Len(file_name) <= maximum_length THEN file_name
    ELSE LET parts == rpartition(file_name, ".")
             name_part == parts[1]
             extension == parts[3]
             available_length_for_name == maximum_length - Len(extension) - 1
         IN IF extension = <<>> \/ Len(extension) > maximum_length
              THEN PyPrefix(file_name, maximum_length)
            ELSE IF available_length_for_name < 0
              THEN PySuffix(file_name, maximum_length)
            ELSE PyPrefix(name_part, available_length_for_name) \o <<".">> \o extension

-----------------------------------------------------------------------------
(* datetime: a record [year, month, day, hour] *)

IsLeap(y) == (y % 4 = 0 /\ y % 100 # 0) \/ y % 400 = 0

DaysInMonth(y, m) ==
    IF m = 2 THEN (IF IsLeap(y) THEN 29 ELSE 28)
    ELSE IF m \in {4, 6, 9, 11} THEN 30 ELSE 31

\* datetime.date(): the calendar day, the time of day dropped
date(dt) == <<dt.year, dt.month, dt.day>>

\* a.date() >= b.date()
DateGE(a, b) ==
    \/ a.year > b.year
    \/ a.year = b.year /\ a.month > b.month
    \/ a.year = b.year /\ a.month = b.month /\ a.day >= b.day

\* dt - timedelta(days=1)
PrevDay(dt) ==
    IF dt.day > 1 THEN [dt EXCEPT !.day = dt.day - 1]
    ELSE IF dt.month > 1
      THEN [dt EXCEPT !.month = dt.month - 1,
                      !.day = DaysInMonth(dt.year, dt.month - 1)]
    ELSE [dt EXCEPT !.year = dt.year - 1, !.month = 12, !.day = 31]

\* dt - timedelta(days=n)
RECURSIVE MinusDays(_, _)
MinusDays(dt, n) == IF n <= 0 THEN dt ELSE MinusDays(PrevDay(dt), n - 1)

\* datetime.weekday(): Monday is 0
MonthKey == <<0, 3, 2, 5, 0, 3, 5, 1, 4, 6, 2, 4>>

weekday(dt) ==
    LET y == IF dt.month < 3 THEN dt.year - 1 ELSE dt.year
        sunday0 == (y + (y \div 4) - (y \div 100) + (y \div 400)
                      + MonthKey[dt.month] + dt.day) % 7
    IN (sunday0 + 6) % 7

\* datetime.replace(day=n): raises ValueError when the month has no such day
replace_day(dt, n) ==
    IF n >= 1 /\ n <= DaysInMonth(dt.year, dt.month)
      THEN [raised |-> FALSE, value |-> [dt EXCEPT !.day = n]]
      ELSE [raised |-> TRUE, value |-> dt]

-----------------------------------------------------------------------------
(* configuration.py: dates of the empty-directory policies *)

\* the names are sequences of characters, as every string the program cuts
WEEK_DAYS ==
    << <<"M", "o", "n", "d", "a", "y">>,
       <<"T", "u", "e", "s", "d", "a", "y">>,
       <<"W", "e", "d", "n", "e", "s", "d", "a", "y">>,
       <<"T", "h", "u", "r", "s", "d", "a", "y">>,
       <<"F", "r", "i", "d", "a", "y">>,
       <<"S", "a", "t", "u", "r", "d", "a", "y">>,
       <<"S", "u", "n", "d", "a", "y">> >>

get_n_age_date(day_number, from_date) == MinusDays(from_date, day_number)

get_week_day(weekday_label, from_date) ==
    LET target_weekday_index ==
            (CHOOSE i \in 1..7 : WEEK_DAYS[i] = weekday_label) - 1
        diff == (weekday(from_date) - target_weekday_index + 7) % 7
        days_ago == IF diff = 0 THEN 7 ELSE diff
    IN [raised |-> FALSE, value |-> MinusDays(from_date, days_ago)]

get_nth_day(day_of_month, from_date) ==
    IF from_date.day >= day_of_month
      THEN replace_day(from_date, day_of_month)
      ELSE LET last_day_of_previous_month == PrevDay([from_date EXCEPT !.day = 1])
           IN replace_day(last_day_of_previous_month, day_of_month)

\* str.lower, str.upper on one character
UpperCase == <<"A", "B", "C", "D", "E", "F", "G", "H", "I", "J", "K", "L", "M", "N", "O", "P", "Q", "R", "S", "T", "U", "V", "W", "X", "Y", "Z">>
LowerCase == <<"a", "b", "c", "d", "e", "f", "g", "h", "i", "j", "k", "l", "m", "n", "o", "p", "q", "r", "s", "t", "u", "v", "w", "x", "y", "z">>

ToLower(c) ==
    IF \E i \in 1..26 : UpperCase[i] = c
      THEN LowerCase[CHOOSE i \in 1..26 : UpperCase[i] = c] ELSE c

ToUpper(c) ==
    IF \E i \in 1..26 : LowerCase[i] = c
      THEN UpperCase[CHOOSE i \in 1..26 : LowerCase[i] = c] ELSE c

lower(s) == [i \in 1..Len(s) |-> ToLower(s[i])]

\* str.capitalize: the first character upper case, the others lower case
capitalize(s) == [i \in 1..Len(s) |-> IF i = 1 THEN ToUpper(s[i]) ELSE ToLower(s[i])]

Digits == <<"0", "1", "2", "3", "4", "5", "6", "7", "8", "9">>

\* str.isnumeric
isnumeric(s) == s # <<>> /\ \A i \in 1..Len(s) : \E d \in 1..10 : Digits[d] = s[i]

\* the number a string of digits reads as
RECURSIVE DigitsValue(_)
DigitsValue(s) ==
    IF s = <<>> THEN 0
    ELSE 10 * DigitsValue(SubSeq(s, 1, Len(s) - 1))
            + (CHOOSE d \in 1..10 : Digits[d] = s[Len(s)]) - 1

\* int(s): raises ValueError unless s is a string of digits
int(s) ==
    IF isnumeric(s) THEN [raised |-> FALSE, value |-> DigitsValue(s)]
    ELSE [raised |-> TRUE, value |-> 0]

short_weekdays ==
    [k \in { SubSeq(WEEK_DAYS[i], 1, 3) : i \in 1..7 } |->
        WEEK_DAYS[CHOOSE i \in 1..7 : SubSeq(WEEK_DAYS[i], 1, 3) = k]]

\* parse_day_label: <<"int", n>> for a day of the month, <<"str", name>> for a
\* weekday; raised on the ValueError of int() or of an unknown label
parse_day_label(raw_label) ==
    LET label == lower(raw_label)
        capitalize_raw_label == capitalize(raw_label)
    IN IF \E suffix \in { <<"s", "t">>, <<"n", "d">>, <<"r", "d">>, <<"t", "h">> } :
             endswith(label, suffix)
         THEN LET n == int(SubSeq(label, 1, Len(label) - 2))
              IN [raised |-> n.raised, value |-> <<"int", n.value>>]
       ELSE IF isnumeric(label)
         THEN [raised |-> FALSE, value |-> <<"int", int(label).value>>]
       ELSE IF capitalize_raw_label \in Range(WEEK_DAYS)
         THEN [raised |-> FALSE, value |-> <<"str", capitalize_raw_label>>]
       ELSE IF capitalize_raw_label \in DOMAIN short_weekdays
         THEN [raised |-> FALSE, value |-> <<"str", short_weekdays[capitalize_raw_label]>>]
       ELSE [raised |-> TRUE, value |-> <<"str", raw_label>>]

\* get_label_to_date(day_label)(from_date)
get_label_to_date(day_label, from_date) ==
    IF day_label[1] = "str" /\ day_label[2] \in Range(WEEK_DAYS)
      THEN get_week_day(day_label[2], from_date)
    ELSE IF day_label[1] = "int"
      THEN get_nth_day(day_label[2], from_date)
    ELSE [raised |-> TRUE, value |-> from_date]

-----------------------------------------------------------------------------
(* rss.py: filters of the selection *)

\* a filter that lets every link type through
allow_every_link_type(allowed_types, entity) == TRUE

build_only_allowed_filter_for_link_data(allowed_types, entity) ==
    entity.type \in allowed_types

\* a variant that takes the entities from the other end of the feed
only_oldest_n_entities(n, entities) == islice(Reverse(entities), n)

only_last_n_entities(n, entities) == islice(entities, n)

\* a variant that compares the time of day too
is_entity_newer_to_the_hour(from_date, entity) ==
    \/ date(entity.published_date) # date(from_date)
         /\ DateGE(entity.published_date, from_date)
    \/ date(entity.published_date) = date(from_date)
         /\ entity.published_date.hour >= from_date.hour

is_entity_newer(from_date, entity) == DateGE(entity.published_date, from_date)

only_entities_from_date(from_date, entities) ==
    filter([i \in 1..Len(entities) |-> is_entity_newer(from_date, entities[i])],
           entities)

\* a variant that offers nothing when there is no boundary
build_only_new_entities_or_nothing(names, from_file, entities) ==
    IF from_file = None THEN <<>>
    ELSE takewhile([i \in 1..Len(entities) |-> Some(names[i]) # from_file], entities)

\* build_only_new_entities(to_name_function, from_file)(entities), where
\* names[i] is to_name_function(entities[i]) and from_file may be None
build_only_new_entities(names, from_file, entities) ==
    takewhile([i \in 1..Len(entities) |-> Some(names[i]) # from_file], entities)

-----------------------------------------------------------------------------
(* downloaded.py *)

RECURSIVE gap_scan(_, _, _)
gap_scan(feed_files, all_downloaded_files, last_seen_downloaded_file) ==
    IF feed_files = <<>> THEN last_seen_downloaded_file
    ELSE IF Head(feed_files) \in all_downloaded_files
      THEN gap_scan(Tail(feed_files), all_downloaded_files, Some(Head(feed_files)))
    ELSE IF last_seen_downloaded_file # None
      THEN last_seen_downloaded_file
    ELSE gap_scan(Tail(feed_files), all_downloaded_files, last_seen_downloaded_file)

\* a scan that does not stop at the first gap: the newest feed file on disk
newest_downloaded_file_in_feed(feed_files, downloaded_files) ==
    IF downloaded_files = <<>> THEN None
    ELSE Some(downloaded_files[Len(downloaded_files)])

get_last_downloaded_file_before_gap(feed_files, downloaded_files) ==
    gap_scan(feed_files, Range(downloaded_files), None)

get_extensions_checker(extensions, file_name) ==
    \E ext \in extensions : endswith(file_name, ext)

\* get_downloaded_files: the names in the directory that pass the checker
get_downloaded_files(extensions, directory_files) ==
    { f \in directory_files : get_extensions_checker(extensions, f) }


-----------------------------------------------------------------------------
(* utils.py: the selection inside process_podcast_feed *)

\* The value of if_directory_empty is modelled cut into its pieces:
\* <<"download_last">>, <<"download_all_from_feed">>,
\* <<"download_since_last_run">>, <<"download_from_", n, "_days">>,
\* <<"download_last_", n, "_episodes">>, <<"download_from_", label>> with a
\* day label, and anything else (here <<"bogus">>).
Raised == [raised |-> TRUE, value |-> <<>>]
Returned(v) == [raised |-> FALSE, value |-> v]

\* a variant that takes the whole feed when there is no last run date
since_last_run_or_all(last_run_date, source) ==
    IF last_run_date # None
      THEN Returned(only_entities_from_date(last_run_date[1], source))
      ELSE Returned(source)

\* the download_since_last_run branch (lines 269-273): raises without a
\* last run date
since_last_run(last_run_date, source) ==
    IF last_run_date # None
      THEN Returned(only_entities_from_date(last_run_date[1], source))
      ELSE Raised

\* configuration_to_function_on_empty_directory(value, last_run_date)(source);
\* local_time is what datetime.now() gives
configuration_to_function_on_empty_directory(configuration_value, last_run_date, local_time, source) ==
    IF configuration_value = Some(<<"download_last">>)
      THEN Returned(only_last_n_entities(1, source))
    ELSE IF configuration_value = Some(<<"download_all_from_feed">>)
      THEN Returned(source)
    ELSE IF configuration_value = Some(<<"download_since_last_run">>)
      THEN since_last_run(last_run_date, source)
    ELSE IF configuration_value = None
      THEN Raised   \* re.match on None: TypeError
    ELSE LET v == configuration_value[1] IN
      IF Len(v) = 3 /\ v[1] = "download_from_" /\ v[3] = "_days"
        THEN Returned(only_entities_from_date(get_n_age_date(v[2], local_time), source))
      ELSE IF Len(v) = 3 /\ v[1] = "download_last_" /\ v[3] = "_episodes"
        THEN Returned(only_last_n_entities(v[2], source))
      ELSE IF Len(v) = 2 /\ v[1] = "download_from_"
        THEN LET day_label == parse_day_label(v[2]) IN
             IF day_label.raised THEN Raised
             ELSE LET from_date == get_label_to_date(day_label.value, local_time) IN
                  IF from_date.raised THEN Raised
                  ELSE Returned(only_entities_from_date(from_date.value, source))
      ELSE Raised

\* path is modelled as [name, length]: the directory and len(str(path))
get_system_file_name_limit(sub_configuration, platform) ==
    LET path_len == IF "path" \in DOMAIN sub_configuration
                      THEN sub_configuration["path"][1].length ELSE 0
    IN IF platform = "win32" THEN 255 ELSE 260 - path_len - 1

\* configuration_to_function_rss_to_name(template, sub_configuration)(entity)
to_name_function(podcast_config, entity) ==
    file_template_to_file_name(podcast_config["file_name_template"][1], entity)

\* compose(partial(limit_file_name, file_length_limit), to_name_function)
to_real_file_name(podcast_config, platform, entity) ==
    limit_file_name(get_system_file_name_limit(podcast_config, platform),
                    to_name_function(podcast_config, entity))

\* the name build_only_new_entities compares with the boundary
boundary_name_function(podcast_config, platform, entity) ==
    to_name_function(podcast_config, entity)

\* a variant that takes the oldest on-disk feed file as the boundary
pick_oldest_downloaded_file(fill_up_gaps, all_feed_files, current_downloaded_in_feed) ==
    IF fill_up_gaps
      THEN get_last_downloaded_file_before_gap(all_feed_files, current_downloaded_in_feed)
      ELSE Some(current_downloaded_in_feed[1])

\* last_downloaded_file when some feed file is on disk (lines 345-348)
pick_last_downloaded_file(fill_up_gaps, all_feed_files, current_downloaded_in_feed) ==
    IF fill_up_gaps
      THEN get_last_downloaded_file_before_gap(all_feed_files, current_downloaded_in_feed)
      ELSE Some(current_downloaded_in_feed[Len(current_downloaded_in_feed)])

\* a selection that also applies the empty-directory policy when the directory
\* holds files but none of the feed
select_missing_policy_without_overlap(podcast_config, platform, last_run_date, local_time, all_feed_entries, downloaded_files_set) ==
    LET n == Len(all_feed_entries)
        all_feed_files ==
            Reverse([i \in 1..n |->
                        to_real_file_name(podcast_config, platform, all_feed_entries[i])])
        names == [i \in 1..n |->
                     boundary_name_function(podcast_config, platform, all_feed_entries[i])]
        current_downloaded_in_feed ==
            filter([i \in 1..n |-> all_feed_files[i] \in downloaded_files_set],
                   all_feed_files)
    IN IF downloaded_files_set = {} \/ current_downloaded_in_feed = <<>>
         THEN LET r == configuration_to_function_on_empty_directory(
                           podcast_config["if_directory_empty"], last_run_date,
                           local_time, all_feed_entries)
              IN [raised |-> r.raised, last_downloaded_file |-> None,
                  missing_files_links |-> r.value]
         ELSE LET last_downloaded_file ==
                      pick_last_downloaded_file(
                          podcast_config["fill_up_gaps"] = Some(TRUE),
                          all_feed_files, current_downloaded_in_feed)
              IN [raised |-> FALSE, last_downloaded_file |-> last_downloaded_file,
                  missing_files_links |->
                      build_only_new_entities(names, last_downloaded_file,
                                              all_feed_entries)]

\* lines 334-351 of process_podcast_feed: the boundary and the missing entities,
\* newest first; raised when the empty-directory policy cannot be resolved
select_missing(podcast_config, platform, last_run_date, local_time, all_feed_entries, downloaded_files_set) ==
    LET n == Len(all_feed_entries)
        all_feed_files ==
            Reverse([i \in 1..n |->
                        to_real_file_name(podcast_config, platform, all_feed_entries[i])])
        names == [i \in 1..n |->
                     boundary_name_function(podcast_config, platform, all_feed_entries[i])]
    IN IF downloaded_files_set = {}
         THEN LET r == configuration_to_function_on_empty_directory(
                           podcast_config["if_directory_empty"], last_run_date,
                           local_time, all_feed_entries)
              IN [raised |-> r.raised, last_downloaded_file |-> None,
                  missing_files_links |-> r.value]
         ELSE LET current_downloaded_in_feed ==
                      filter([i \in 1..n |-> all_feed_files[i] \in downloaded_files_set],
                             all_feed_files)
                  last_downloaded_file ==
                      IF current_downloaded_in_feed = <<>> THEN None
                      ELSE pick_last_downloaded_file(
                               podcast_config["fill_up_gaps"] = Some(TRUE),
                               all_feed_files, current_downloaded_in_feed)
              IN [raised |-> FALSE, last_downloaded_file |-> last_downloaded_file,
                  missing_files_links |->
                      build_only_new_entities(names, last_downloaded_file,
                                              all_feed_entries)]


-----------------------------------------------------------------------------
(* Inputs the model explores *)

MP3 == <<"m", "p", "3">>

DEFAULT_TEMPLATE == <<"%title%", ".", "%file_extension%">>

Day(y, m, d, h) == [year |-> y, month |-> m, day |-> d, hour |-> h]

\* an RSSEntity whose link ends in <title>.mp3
Entity(title, published) ==
    [published_date |-> published, title |-> title, type |-> "audio/mpeg",
     link |-> [file_name |-> title, file_extension |-> MP3]]

TitlePool == { <<"a">>, <<"b">>, <<"a", "b">> }

DatePool == { Day(2024, 3, 9, 20), Day(2024, 3, 10, 8), Day(2024, 3, 11, 8) }

NowPool == { Day(2024, 3, 11, 12) }

LastRunPool == { None, Some(Day(2024, 3, 10, 12)) }

\* a directory with a short path, and one so deep that only 5 characters
\* are left for a file name on a platform that is not win32
ShortPath == [name |-> "short", length |-> 20]
LongPath == [name |-> "long", length |-> 254]

PlatformPaths == { <<"linux", ShortPath>>, <<"linux", LongPath>>, <<"win32", LongPath>> }

PolicyPool ==
    { <<"download_last">>, <<"download_all_from_feed">>, <<"download_since_last_run">>,
      <<"download_from_", 1, "_days">>, <<"download_last_", 2, "_episodes">>,
      <<"bogus">> }

\* day labels: ordinal days, weekdays in several spellings, a day no month
\* before the run's has, a label that is neither
DayLabelPool ==
    { <<"1", "0", "t", "h">>, <<"9">>, <<"s", "u", "n">>, <<"M", "O", "N", "D", "A", "Y">>, <<"3", "1", "s", "t">>, <<"n", "o", "d", "a", "y">> }

\* the policies tried on an empty directory
EmptyPolicyPool ==
    PolicyPool \cup { <<"download_from_", label>> : label \in DayLabelPool }

\* all sequences over S of length at most n
RECURSIVE SeqsUpTo(_, _)
SeqsUpTo(S, n) ==
    IF n = 0 THEN { <<>> }
    ELSE LET shorter == SeqsUpTo(S, n - 1)
         IN shorter \cup { <<x>> \o t : x \in S, t \in { u \in shorter : Len(u) = n - 1 } }

\* the feed of the gap-fill example, newest first: E5, E4, E3, E2, E1
E(k) == Entity(<<Digit(k), "x">>, Day(2024, 3, k, 8))
ExampleFeed == << E(5), E(4), E(3), E(2), E(1) >>

\* a feed of three names, newest first, whose newest name is the only one
\* longer than the 5 characters of the deep directory
ShortenedNewestFeed ==
    << Entity(<<"a", "b">>, Day(2024, 3, 11, 8)), Entity(<<"c">>, Day(2024, 3, 10, 8)),
       Entity(<<"b">>, Day(2024, 3, 9, 8)) >>

\* feeds whose entities differ in title (one date each)
TitleFeeds ==
    SeqsUpTo({ Entity(t, Day(2024, 3, 10, 8)) : t \in TitlePool }, MaxFeedLen)
        \cup { ExampleFeed, ShortenedNewestFeed }

\* feeds whose entities differ in date
DateFeeds == SeqsUpTo({ Entity(<<"a">>, d) : d \in DatePool }, MaxFeedLen)

\* a file of the directory that no feed names
UnrelatedFile == <<"z", ".", "m", "p", "3">>

\* the per-feed configuration as main merges it, for the keys the selection reads
SelectionConfig(path, fill_up_gaps, policy) ==
    [k \in {"path", "file_name_template", "fill_up_gaps", "if_directory_empty"} |->
        CASE k = "path" -> Some(path)
          [] k = "file_name_template" -> Some(DEFAULT_TEMPLATE)
          [] k = "fill_up_gaps" -> Some(fill_up_gaps)
          [] k = "if_directory_empty" -> Some(policy)]

\* the real names of a feed under a configuration
FeedFileSet(podcast_config, platform, entries) ==
    { to_real_file_name(podcast_config, platform, entries[i]) : i \in 1..Len(entries) }

\* the run and the feed position when the program is not in a run
Idle == [k \in {} |-> None]

-----------------------------------------------------------------------------
(* SpecSelect: one selection, on inputs drawn from the pools *)

SelInput(podcast_config, platform, last_run_date, local_time, entries, files) ==
    [podcast_config |-> podcast_config, platform |-> platform,
     last_run_date |-> last_run_date, local_time |-> local_time,
     all_feed_entries |-> entries, downloaded_files_set |-> files,
     done |-> FALSE, raised |-> FALSE, last_downloaded_file |-> None,
     missing_files_links |-> <<>>]

\* a directory that holds files: feeds that differ in their names
InitOverlap ==
    \E entries \in TitleFeeds, pp \in PlatformPaths, fill_up_gaps \in BOOLEAN,
       policy \in PolicyPool :
      LET podcast_config == SelectionConfig(pp[2], fill_up_gaps, policy)
          candidates == FeedFileSet(podcast_config, pp[1], entries) \cup {UnrelatedFile}
      IN \E files \in (SUBSET candidates) \ {{}} :
            sel = SelInput(podcast_config, pp[1], None, CHOOSE t \in NowPool : TRUE,
                           entries, files)

\* an empty directory: feeds that differ in their dates
InitEmpty ==
    \E entries \in DateFeeds, policy \in EmptyPolicyPool, last_run_date \in LastRunPool,
       local_time \in NowPool :
      sel = SelInput(SelectionConfig(ShortPath, FALSE, policy), "linux",
                     last_run_date, local_time, entries, {})

InitSelect ==
    /\ pc = "select"
    /\ run = Idle
    /\ cur = Idle
    /\ (InitOverlap \/ InitEmpty)

Select ==
    /\ pc = "select"
    /\ LET r == select_missing(sel.podcast_config, sel.platform, sel.last_run_date,
                               sel.local_time, sel.all_feed_entries,
                               sel.downloaded_files_set)
       IN sel' = [sel EXCEPT !.done = TRUE, !.raised = r.raised,
                             !.last_downloaded_file = r.last_downloaded_file,
                             !.missing_files_links = r.missing_files_links]
    /\ pc' = "selected"
    /\ UNCHANGED <<run, cur>>

NextSelect == Select

SpecSelect == InitSelect /\ [][NextSelect]_vars


-----------------------------------------------------------------------------
(* parameters.py, configuration.py, utils.py: the configuration *)

merge_parameters_collection(default, other) == dict_update(default, other)

\* sys.maxsize, cut to what TLC's integers hold
sys_maxsize == 2147483647

DEFAULT_CONFIGURATION ==
    [k \in {"downloads_limit", "if_directory_empty", "podcast_extensions",
            "file_name_template", "fill_up_gaps", "download_delay",
            "last_run_mark_file_path", "podcasts", "dry_run"} |->
        CASE k = "downloads_limit" -> Some(sys_maxsize)
          [] k = "if_directory_empty" -> Some(<<"download_last">>)
          [] k = "podcast_extensions" -> Some({ << <<".">> \o MP3, "audio/mpeg" >> })
          [] k = "file_name_template" -> Some(DEFAULT_TEMPLATE)
          [] k = "fill_up_gaps" -> Some(FALSE)
          [] k = "download_delay" -> Some(0)
          [] k = "last_run_mark_file_path" -> None
          [] k = "podcasts" -> Some(<<>>)
          [] k = "dry_run" -> Some(FALSE)]

\* build_parser + parse_args: vars(args) holds every option, None when the
\* flag is absent (dry_run is a store_true flag: False when absent)
parse_args(downloads_limit, if_directory_empty, config, download_delay, dry_run) ==
    [k \in {"downloads_limit", "if_directory_empty", "config", "download_delay",
            "dry_run"} |->
        CASE k = "downloads_limit" -> downloads_limit
          [] k = "if_directory_empty" -> if_directory_empty
          [] k = "config" -> config
          [] k = "download_delay" -> download_delay
          [] k = "dry_run" -> Some(dry_run)]

\* parse_argv: only the options given on the command line
parse_argv(parsed_args) ==
    [k \in { key \in DOMAIN parsed_args : parsed_args[key] # None } |-> parsed_args[k]]

\* what setup_configuration hands to the merge as the command line's layer
cli_layer(args) == args

\* a verification that looks for the path of each object only
configuration_verification_path_only(config) ==
    \/ "podcasts" \notin DOMAIN config
    \/ config["podcasts"] = None
    \/ \E i \in 1..Len(config["podcasts"][1]) :
          "path" \notin DOMAIN config["podcasts"][1][i]

\* configuration_verification: TRUE when it raises ConfigurationError
configuration_verification_raises(config) ==
    \/ "podcasts" \notin DOMAIN config
    \/ config["podcasts"] = None
    \/ \E i \in 1..Len(config["podcasts"][1]) :
          \/ "path" \notin DOMAIN config["podcasts"][1][i]
          \/ "rss_link" \notin DOMAIN config["podcasts"][1][i]

\* setup_configuration: the merged configuration, or raised on a
\* ConfigurationError; config_file_data is {} when the file cannot be loaded
setup_configuration(args, config_file_data) ==
    LET merged == merge_parameters_collection(
                      merge_parameters_collection(DEFAULT_CONFIGURATION, config_file_data),
                      cli_layer(args))
    IN [raised |-> configuration_verification_raises(merged), value |-> merged]

\* the layers of one feed's configuration with the run's values on top
feed_layers_under_run(configuration, rss_source) ==
    merge_parameters_collection(rss_source, configuration)

\* the layers of one feed's configuration (main, line 411)
feed_layers(configuration, rss_source) ==
    merge_parameters_collection(configuration, rss_source)

\* load_the_last_run_date_store_now: the reference date and whether the marker
\* file was touched; marker is None when the file does not exist, else its atime
load_the_last_run_date_store_now(marker_file_path_str, now, marker) ==
    IF marker_file_path_str = None THEN [value |-> None, touched |-> FALSE]
    ELSE IF marker = None THEN [value |-> Some(now), touched |-> TRUE]
    ELSE [value |-> marker, touched |-> TRUE]

-----------------------------------------------------------------------------
(* rss.py: raw feed entries to entities *)

\* the entities of one raw entry: one per link that has an href
RECURSIVE entry_links(_, _)
entry_links(rss_entry, links) ==
    IF links = <<>> THEN <<>>
    ELSE (IF Head(links).href # None
            THEN << [published_date |-> rss_entry.published_parsed[1],
                     title |-> rss_entry.title,
                     type |-> Head(links).type,
                     link |-> Head(links).href[1]] >>
            ELSE <<>>)
         \o entry_links(rss_entry, Tail(links))

RECURSIVE flatten_rss_links_data(_)
flatten_rss_links_data(source) ==
    IF source = <<>> THEN <<>>
    ELSE (IF Head(source).published_parsed = None THEN <<>>
          ELSE entry_links(Head(source), Head(source).links))
         \o flatten_rss_links_data(Tail(source))

\* lines 330-332: the entities of the feed whose type is allowed
all_feed_entries_of(podcast_config, feed) ==
    LET allow_link_types == { x[2] : x \in podcast_config["podcast_extensions"][1] }
        flat == flatten_rss_links_data(feed.entries)
    IN filter([i \in 1..Len(flat) |->
                  build_only_allowed_filter_for_link_data(allow_link_types, flat[i])],
              flat)

\* lines 328-329 and 335: the names in the directory with a podcast extension
downloaded_files_of(podcast_config, directory_files) ==
    get_downloaded_files({ x[1] : x \in podcast_config["podcast_extensions"][1] },
                         directory_files)

-----------------------------------------------------------------------------
(* utils.py: process_podcast_feed up to the download loop *)

ProcessingStats(downloads, skipped, errors) ==
    [downloads |-> downloads, skipped |-> skipped, errors |-> errors]

\* the locals of process_podcast_feed the loop and the claims read
FeedLocals(podcast_config, stats, fetched, entries, files, directory_files, boundary, missing, queue) ==
    [rss_source |-> EmptyDict,
     podcast_config |-> podcast_config, stats |-> stats, fetched |-> fetched,
     all_feed_entries |-> entries, downloaded_files_set |-> files,
     directory_files |-> directory_files,
     last_downloaded_file |-> boundary, missing_files_links |-> missing,
     queue |-> queue, transferred |-> <<>>, last_outcome |-> "none",
     waits |-> 0, limit_reached |-> FALSE]

\* a handler that logs the error and does not count it
feed_exception_uncounted(stats) == stats

\* the feed-level handler (lines 386-388): the error is counted
feed_exception(stats) == [stats EXCEPT !.errors = stats.errors + 1]

\* a loop that takes the missing list as selection returned it, newest first
reversed_not(missing_files_links) == missing_files_links

\* reversed(missing_files_links), the order of the for loop (line 361)
reversed(missing_files_links) == Reverse(missing_files_links)

\* lines 303-359: from the entry of process_podcast_feed to the loop
process_podcast_feed_start(podcast_config, last_run_date, local_time, platform, feed, directory_files) ==
    LET stats == ProcessingStats(0, 0, 0)
        rss_source_name == dict_get(podcast_config, "name", None)
        early(st, fetched) ==
            FeedLocals(podcast_config, st, fetched, <<>>, {}, directory_files, None, <<>>, <<>>)
    IN IF dict_get(podcast_config, "disable", Some(FALSE)) = Some(TRUE)
         THEN early([stats EXCEPT !.skipped = 1], FALSE)
       ELSE IF feed.bozo /\ feed.entries = <<>>
         THEN early([stats EXCEPT !.errors = 1], TRUE)
       ELSE IF rss_source_name = None /\ ~feed.has_title
         THEN early(feed_exception(stats), TRUE)   \* feed.feed.title: AttributeError
       ELSE
         LET entries == all_feed_entries_of(podcast_config, feed)
             files == downloaded_files_of(podcast_config, directory_files)
             r == select_missing(podcast_config, platform, last_run_date, local_time,
                                 entries, files)
         IN IF r.raised
              THEN FeedLocals(podcast_config, feed_exception(stats), TRUE, entries, files,
                              directory_files, None, <<>>, <<>>)
            ELSE IF r.missing_files_links = <<>>
              THEN FeedLocals(podcast_config, [stats EXCEPT !.skipped = 1], TRUE, entries,
                              files, directory_files, r.last_downloaded_file, <<>>, <<>>)
            ELSE FeedLocals(podcast_config, stats, TRUE, entries, files, directory_files,
                            r.last_downloaded_file, r.missing_files_links,
                            reversed(r.missing_files_links))

-----------------------------------------------------------------------------
(* utils.py: main and the download loop, as steps of the run *)

\* what one call of download_rss_entity_to_path can do:
\*   ok          the file is written
\*   failed      an exception caught inside it: no file appears
\*   mkdir_error path.mkdir raises, outside its try: the exception escapes
\*               before anything is requested
TransferOutcomes == { "ok", "failed", "mkdir_error" }

\* the state of the run before main starts
RunStart(args, config_file_data, platform, local_time, world, run_no, previous) ==
    [args |-> args, config_file_data |-> config_file_data, platform |-> platform,
     local_time |-> local_time,
     configuration |-> EmptyDict, remaining |-> <<>>, visited |-> <<>>,
     last_run_datetime |-> None, dry_run |-> FALSE,
     total_stats |-> ProcessingStats(0, 0, 0), exit_code |-> None,
     marker_touched |-> FALSE, fetched |-> FALSE, transfers |-> 0,
     world |-> world, run_no |-> run_no, previous |-> previous]

\* main, lines 393-408: the configuration, the marker file, the statistics.
\* The podcasts list is kept as what the for loop has still to visit.
Setup ==
    /\ pc = "start"
    /\ LET r == setup_configuration(run.args, run.config_file_data)
       IN IF r.raised
            THEN /\ run' = [run EXCEPT !.exit_code = Some(1)]
                 /\ pc' = "done"
            ELSE \E marker \in LastRunPool :
                   LET m == load_the_last_run_date_store_now(
                                r.value["last_run_mark_file_path"], run.local_time, marker)
                       podcasts == r.value["podcasts"][1]
                   IN /\ run' = [run EXCEPT
                                   !.configuration =
                                       [k \in DOMAIN r.value \ {"podcasts"} |-> r.value[k]],
                                   !.remaining = podcasts,
                                   !.last_run_datetime = m.value,
                                   !.marker_touched = m.touched,
                                   !.dry_run = (dict_get(r.value, "dry_run", Some(FALSE))
                                                   = Some(TRUE))]
                      /\ pc' = "loop"
    /\ UNCHANGED <<sel, cur>>

\* main line 411 and process_podcast_feed, lines 303-359, on what the feed
\* and the directory hold
FeedStartOn(rss_source, feed, directory_files) ==
    /\ pc = "loop"
    /\ run.remaining # <<>>
    /\ LET podcast_config == feed_layers(run.configuration, rss_source)
           locals == process_podcast_feed_start(podcast_config, run.last_run_datetime,
                                                run.local_time, run.platform,
                                                feed, directory_files)
       IN /\ cur' = [locals EXCEPT !.rss_source = rss_source]
          /\ run' = [run EXCEPT !.fetched = @ \/ locals.fetched]
    /\ pc' = "feed"
    /\ UNCHANGED sel

\* the handler of an exception raised inside the loop (lines 386-388)
loop_exception(locals) ==
    [locals EXCEPT !.stats = feed_exception(locals.stats), !.queue = <<>>]

\* the counter after one download (line 382)
decrement_downloads_limit(configuration) ==
    [configuration EXCEPT !["downloads_limit"] = Some(@[1] - 1)]

\* a loop that stops one download late
limit_reached_below_zero(current_downloads_limit) == current_downloads_limit < 0

\* whether the global counter stops the loop (lines 365-368)
limit_reached(current_downloads_limit) == current_downloads_limit <= 0

\* the statistics and the counter after the call of download_function
\* (lines 379-384): the same whatever the call did
after_transfer(st, outcome) ==
    [configuration |-> decrement_downloads_limit(st.configuration),
     downloads |-> st.downloads + 1]

\* a loop that never sleeps
waits_after_no_sleep(download_delay, waits) == waits

\* the sleeps of the feed after lines 369-370: one more when the delay is
\* positive
waits_after(download_delay, waits) == IF download_delay > 0 THEN waits + 1 ELSE waits

\* a loop that calls download_function in a dry run too
download_function_called_always(dry_run) == TRUE

\* whether the loop calls download_function (line 379)
download_function_called(dry_run) == ~dry_run

\* one iteration of the loop of lines 361-384
DownloadNext ==
    /\ pc = "feed"
    /\ cur.queue # <<>>
    /\ LET rss_entry == Head(cur.queue)
           current_downloads_limit ==
               dict_get(run.configuration, "downloads_limit", Some(sys_maxsize))
           download_delay == cur.podcast_config["download_delay"]
           wanted_file_name == to_real_file_name(cur.podcast_config, run.platform, rss_entry)
       IN IF current_downloads_limit = None
            THEN \* None <= 0: TypeError
                 /\ cur' = loop_exception(cur)
                 /\ run' = run
          ELSE IF limit_reached(current_downloads_limit[1])
            THEN /\ cur' = [cur EXCEPT !.queue = <<>>, !.limit_reached = TRUE]
                 /\ run' = run
          ELSE IF download_delay = None
            THEN \* None > 0: TypeError
                 /\ cur' = loop_exception(cur)
                 /\ run' = run
          ELSE LET slept == waits_after(download_delay[1], cur.waits)
               IN IF ~download_function_called(run.dry_run)
                    THEN /\ cur' = [cur EXCEPT
                               !.queue = Tail(@), !.waits = slept,
                               !.stats = [@ EXCEPT !.downloads = @ + 1],
                               !.transferred = Append(@, [entity |-> rss_entry,
                                       name |-> wanted_file_name, outcome |-> "dry_run"])]
                         /\ run' = run
                    ELSE \E outcome \in TransferOutcomes :
                           IF outcome = "mkdir_error"
                             THEN /\ cur' = [loop_exception(cur) EXCEPT
                                          !.waits = slept,
                                          !.transferred = Append(@, [entity |-> rss_entry,
                                                  name |-> wanted_file_name,
                                                  outcome |-> outcome])]
                                  /\ run' = run
                             ELSE LET a == after_transfer(
                                              [configuration |-> run.configuration,
                                               downloads |-> cur.stats.downloads], outcome)
                                  IN /\ cur' = [cur EXCEPT
                                          !.queue = Tail(@), !.waits = slept,
                                          !.stats = [@ EXCEPT !.downloads = a.downloads],
                                          !.directory_files =
                                              IF outcome = "ok"
                                                THEN @ \cup {wanted_file_name} ELSE @,
                                          !.transferred = Append(@, [entity |-> rss_entry,
                                                  name |-> wanted_file_name,
                                                  outcome |-> outcome])]
                                     /\ run' = [run EXCEPT
                                          !.configuration = a.configuration,
                                          !.transfers = @ + 1]
    /\ pc' = "feed"
    /\ UNCHANGED sel

\* what the run keeps of a feed it has processed
FeedSummary(locals) ==
    [rss_link |-> dict_get(locals.rss_source, "rss_link", None),
     fetched |-> locals.fetched,
     missing |-> Len(locals.missing_files_links),
     calls |-> Len(locals.transferred),
     stats |-> locals.stats]

\* a loop of main that gives up at the first podcast that ended in an error
next_podcasts_until_error(remaining, feed_stats) ==
    IF feed_stats.errors > 0 THEN <<>> ELSE Tail(remaining)

\* the for loop of main (line 410) goes on to the next podcast whatever the
\* statistics of the one it has processed
next_podcasts(remaining, feed_stats) == Tail(remaining)

\* process_podcast_feed returns: main, lines 418-420
FeedReturn ==
    /\ pc = "feed"
    /\ cur.queue = <<>>
    /\ run' = [run EXCEPT
          !.total_stats = ProcessingStats(@.downloads + cur.stats.downloads,
                                          @.skipped + cur.stats.skipped,
                                          @.errors + cur.stats.errors),
          !.remaining = next_podcasts(@, cur.stats),
          !.visited = Append(@, FeedSummary(cur)),
          !.world = IF @ = None THEN None
                    ELSE Some([@[1] EXCEPT !.directory_files = cur.directory_files]),
          !.previous = IF run.world = None THEN @ ELSE cur.transferred]
    /\ cur' = Idle
    /\ pc' = "loop"
    /\ UNCHANGED sel

\* a main that reports success whatever the feeds did
main_return_success(total_stats) == 0

\* the value main returns after the loop (line 427)
main_return(total_stats) == IF total_stats.errors = 0 THEN 0 ELSE 1

\* main, lines 422-427: the summary and the exit code
Finish ==
    /\ pc = "loop"
    /\ run.remaining = <<>>
    /\ run' = [run EXCEPT !.exit_code = Some(main_return(run.total_stats))]
    /\ pc' = "done"
    /\ UNCHANGED <<sel, cur>>

-----------------------------------------------------------------------------
(* Spec: one run of main over the configured podcasts *)

\* a raw feed entry with one mp3 enclosure
RawEntry(title, published) ==
    [published_parsed |-> Some(published), title |-> title,
     links |-> << [href |-> Some([file_name |-> title, file_extension |-> MP3]),
                   type |-> "audio/mpeg"] >>]

RawA == RawEntry(<<"a", "x">>, Day(2024, 3, 9, 20))
RawB == RawEntry(<<"b", "x">>, Day(2024, 3, 10, 8))
RawC == RawEntry(<<"c", "x">>, Day(2024, 3, 11, 8))

\* what load_feed can return for a feed of the run
RunFeedPool ==
    { [bozo |-> b, has_title |-> t, entries |-> e] :
        b \in BOOLEAN, t \in BOOLEAN, e \in { <<>>, <<RawC, RawB, RawA>> } }

\* a dict from a set of <<key, value>> pairs
Dict(pairs) ==
    [k \in { kv[1] : kv \in pairs } |-> (CHOOSE kv \in pairs : kv[1] = k)[2]]

\* The podcasts list holds, for each object, the keys configuration_verification
\* reads: the mandatory path and rss_link, here or missing.  The optional keys
\* of an object are drawn when the loop of main reaches it (OptionsPool).
\* The rss_link of an object is its position in the list.
PodcastShapes == { {"path", "rss_link"}, {"rss_link"}, {"path"} }

PodcastObject(position, shape) ==
    [k \in shape |-> IF k = "path" THEN Some(ShortPath) ELSE Some(position)]

OptionsPool ==
    { EmptyDict,
      Dict({ <<"name", Some("n")>>, <<"fill_up_gaps", Some(TRUE)>> }),
      Dict({ <<"name", Some("n")>>, <<"disable", Some(TRUE)>> }),
      Dict({ <<"name", Some("n")>>,
             <<"if_directory_empty", Some(<<"download_since_last_run">>)>>,
             <<"download_delay", Some(1)>> }),
      Dict({ <<"name", Some("n")>>, <<"if_directory_empty", Some(<<"bogus">>)>> }) }

PodcastLists ==
    { [i \in 1..Len(shapes) |-> PodcastObject(i, shapes[i])] :
        shapes \in SeqsUpTo(PodcastShapes, MaxFeeds) }

\* the configuration file: the podcasts list, with or without a marker path;
\* or no readable file at all
ConfigFilePool ==
    { Dict({ <<"podcasts", Some(l)>> }) : l \in PodcastLists }
    \cup { Dict({ <<"podcasts", Some(l)>>, <<"last_run_mark_file_path", Some("marker")>> }) :
             l \in PodcastLists }
    \cup { EmptyDict }

\* the command lines of the run: no flag at all, or a policy and a delay with
\* or without a limit and --dry_run
LimitPool == { None } \cup { Some(n) : n \in 0..MaxLimit }

RunArgsPool ==
    { parse_args(None, None, None, None, FALSE) }
    \cup { parse_args(l, Some(<<"download_all_from_feed">>), None, Some(0), d) :
             l \in LimitPool, d \in BOOLEAN }

Init ==
    /\ pc = "start"
    /\ sel = Idle
    /\ cur = Idle
    /\ \E args \in RunArgsPool, config_file_data \in ConfigFilePool,
          local_time \in NowPool :
         run = RunStart(args, config_file_data, "linux", local_time, None, 1, <<>>)

\* the names a directory may hold when a feed is read: those of the feed
DirectoryCandidates(podcast_config, platform, feed) ==
    FeedFileSet(podcast_config, platform, all_feed_entries_of(podcast_config, feed))

\* the network and the file system answer as they like
FeedStart ==
    /\ pc = "loop"
    /\ run.remaining # <<>>
    /\ run.world = None
    /\ \E feed \in RunFeedPool, options \in OptionsPool :
         LET rss_source == dict_update(Head(run.remaining), options)
             podcast_config == feed_layers(run.configuration, rss_source)
         IN \E directory_files \in
                  SUBSET DirectoryCandidates(podcast_config, run.platform, feed) :
               FeedStartOn(rss_source, feed, directory_files)

Next == Setup \/ FeedStart \/ DownloadNext \/ FeedReturn \/ Finish

Spec == Init /\ [][Next]_vars

-----------------------------------------------------------------------------
(* Selection claims, stated on the result of Select *)

\* the real (length-limited) names of the selection's feed, newest first
SelRealNames ==
    [i \in 1..Len(sel.all_feed_entries) |->
        to_real_file_name(sel.podcast_config, sel.platform, sel.all_feed_entries[i])]

\* oldest-first positions of the feed files that are on disk
OnDisk(files, disk) == { i \in 1..Len(files) : files[i] \in disk }

SetMin(S) == CHOOSE x \in S : \A y \in S : x <= y

\* oldest-first positions of a feed file that is not on disk and comes after
\* some feed file that is
Gaps(files, disk) ==
    LET on == OnDisk(files, disk)
    IN { j \in 1..Len(files) : j \notin on /\ \E i \in on : i < j }

\* the boundary the gap scan is specified to give
GapBoundary(files, disk) ==
    LET gaps == Gaps(files, disk)
    IN IF gaps # {} THEN files[SetMin(gaps) - 1]
       ELSE files[SetMax(OnDisk(files, disk))]

\* the boundary specified without gap filling: the newest feed file on disk
NewestOnDisk(files, disk) == files[SetMax(OnDisk(files, disk))]

\* the episodes before (newer than) the first episode, newest first, whose
\* real name is the boundary
NewerThan(entries, real_names, boundary) ==
    LET hits == { i \in 1..Len(real_names) : real_names[i] = boundary }
    IN IF hits = {} THEN entries ELSE SubSeq(entries, 1, SetMin(hits) - 1)

SelFillUpGaps == sel.podcast_config["fill_up_gaps"] = Some(TRUE)

\* the gap-fill example: feed E5..E1 with E5, E4, E2, E1 on disk, E3 missing
RealName(entity) == to_real_file_name(sel.podcast_config, sel.platform, entity)

IsGapExample ==
    /\ sel.all_feed_entries = ExampleFeed
    /\ sel.downloaded_files_set = { RealName(E(5)), RealName(E(4)), RealName(E(2)),
                                    RealName(E(1)) }
    /\ RealName(E(3)) \notin sel.downloaded_files_set

\* C1: with fill_up_gaps=true and a feed file on disk, the boundary is the last
\* on-disk feed file before the first gap (the newest on-disk feed file when
\* there is no gap) and the missing list is exactly the episodes newer than the
\* boundary; in the example the boundary is E2 and the missing set {E3,E4,E5}.
C1_GapFillSelection ==
    LET names == SelRealNames
        files == Reverse(names)
        disk == sel.downloaded_files_set
    IN (sel.done /\ SelFillUpGaps /\ OnDisk(files, disk) # {}) =>
        LET boundary == GapBoundary(files, disk)
        IN /\ sel.last_downloaded_file = Some(boundary)
           /\ sel.missing_files_links = NewerThan(sel.all_feed_entries, names, boundary)
           /\ IsGapExample =>
                 /\ sel.last_downloaded_file = Some(RealName(E(2)))
                 /\ Range(sel.missing_files_links) = { E(3), E(4), E(5) }

\* C2: with fill_up_gaps=false and a feed file on disk, the boundary is the last
\* element of the oldest-first list of on-disk feed files and the missing list
\* is exactly the episodes before the boundary in the newest-first feed list.
C2_NewestOnDiskSelection ==
    LET names == SelRealNames
        files == Reverse(names)
        disk == sel.downloaded_files_set
    IN (sel.done /\ ~SelFillUpGaps /\ OnDisk(files, disk) # {}) =>
        LET boundary == NewestOnDisk(files, disk)
        IN /\ sel.last_downloaded_file = Some(boundary)
           /\ sel.missing_files_links = NewerThan(sel.all_feed_entries, names, boundary)

\* C3 as stated: in the example with fill_up_gaps=false the boundary is E1 and
\* the missing set {E2,E3,E4,E5}.
C3_ExampleBoundaryE1 ==
    (sel.done /\ ~SelFillUpGaps /\ IsGapExample) =>
        /\ sel.last_downloaded_file = Some(RealName(E(1)))
        /\ Range(sel.missing_files_links) = { E(2), E(3), E(4), E(5) }

\* whether the length limit shortens the name of an entity
Shortened(entity) == RealName(entity) # to_name_function(sel.podcast_config, entity)

\* C3 amended: in the example with fill_up_gaps=false the boundary is E5, the
\* newest feed file on disk, and nothing is missing when E5's name fits the
\* length limit (the whole feed when it is shortened).
C3_ExampleBoundaryE5 ==
    (sel.done /\ ~SelFillUpGaps /\ IsGapExample) =>
        /\ sel.last_downloaded_file = Some(RealName(E(5)))
        /\ sel.missing_files_links =
              (IF Shortened(E(5)) THEN ExampleFeed ELSE <<>>)

C3_Witness ==
    sel.done /\ ~SelFillUpGaps /\ IsGapExample /\ ~Shortened(E(5))
    /\ sel.last_downloaded_file = Some(RealName(E(5)))

\* the selection ran on an empty on-disk set
SelectedOnEmpty == sel.done /\ sel.downloaded_files_set = {}

SelPolicy == sel.podcast_config["if_directory_empty"][1]

\* C11: on an empty on-disk set with policy download_last the missing list is
\* the single newest episode of the feed list (its first; nothing for an empty
\* feed) and the boundary is none; for feed [E3,E2,E1] the result is [E3].
C11_DownloadLastTakesNewest ==
    (SelectedOnEmpty /\ SelPolicy = <<"download_last">>) =>
        /\ ~sel.raised
        /\ sel.last_downloaded_file = None
        /\ sel.missing_files_links =
              IF sel.all_feed_entries = <<>> THEN <<>>
              ELSE << sel.all_feed_entries[1] >>

\* three episodes of three days, newest first
IsThreeDayFeed(entries) ==
    /\ Len(entries) = 3
    /\ entries[1].published_date.day > entries[2].published_date.day
    /\ entries[2].published_date.day > entries[3].published_date.day

C11_Witness ==
    /\ SelectedOnEmpty
    /\ SelPolicy = <<"download_last">>
    /\ IsThreeDayFeed(sel.all_feed_entries)
    /\ sel.missing_files_links = << sel.all_feed_entries[1] >>

\* the date a date-based policy cuts at, None when it has none
Cutoff(policy, last_run_date, local_time) ==
    IF policy = <<"download_since_last_run">> THEN last_run_date
    ELSE IF Len(policy) = 3 /\ policy[1] = "download_from_" /\ policy[3] = "_days"
      THEN Some(get_n_age_date(policy[2], local_time))
    ELSE IF Len(policy) = 2 /\ policy[1] = "download_from_"
      THEN LET day_label == parse_day_label(policy[2])
           IN IF day_label.raised THEN None
              ELSE LET from_date == get_label_to_date(day_label.value, local_time)
                   IN IF from_date.raised THEN None ELSE Some(from_date.value)
    ELSE None

\* a calendar date as one number
CalendarDay(dt) == dt.year * 10000 + dt.month * 100 + dt.day

\* the episodes of a feed published on the calendar day of the cutoff or
\* later, in feed order
OnOrAfter(entries, cutoff) ==
    LET Test(e) == CalendarDay(e.published_date) >= CalendarDay(cutoff)
    IN SelectSeq(entries, Test)

SelCutoff == Cutoff(SelPolicy, sel.last_run_date, sel.local_time)

\* C12: for every date-based empty-directory policy the episodes selected for
\* an empty directory are the feed's episodes whose publish calendar date is on
\* or after the cutoff's calendar date, in feed order; the time of day is
\* ignored.
C12_DatePolicyKeepsFromCutoffDay ==
    (SelectedOnEmpty /\ SelCutoff # None) =>
        /\ ~sel.raised
        /\ sel.missing_files_links = OnOrAfter(sel.all_feed_entries, SelCutoff[1])

\* an episode of the cutoff's day, published earlier in the day than the
\* cutoff, is selected, and an older one is not; for a day-label policy
C12_Witness ==
    /\ SelectedOnEmpty
    /\ SelCutoff # None
    /\ Len(SelPolicy) = 2
    /\ \E i \in 1..Len(sel.missing_files_links) :
          /\ date(sel.missing_files_links[i].published_date) = date(SelCutoff[1])
          /\ sel.missing_files_links[i].published_date.hour < SelCutoff[1].hour
    /\ Len(sel.missing_files_links) < Len(sel.all_feed_entries)

\* the on-disk set holds files and none of them has the real name of an
\* episode of the feed
NoOverlap ==
    /\ sel.downloaded_files_set # {}
    /\ \A i \in 1..Len(sel.all_feed_entries) :
          RealName(sel.all_feed_entries[i]) \notin sel.downloaded_files_set

\* C15: when the on-disk set is not empty and none of the feed's rendered file
\* names is on disk, the missing list is the entire feed list, unfiltered (the
\* empty-directory policy is not applied), and the boundary is none.
C15_NoOverlapTakesWholeFeed ==
    (sel.done /\ NoOverlap) =>
        /\ ~sel.raised
        /\ sel.last_downloaded_file = None
        /\ sel.missing_files_links = sel.all_feed_entries

\* a feed of several episodes under a policy that would take one of them, or
\* fail, on an empty directory
C15_Witness ==
    /\ sel.done
    /\ NoOverlap
    /\ Len(sel.all_feed_entries) >= 2
    /\ SelPolicy \in { <<"download_last">>, <<"bogus">> }
    /\ sel.missing_files_links = sel.all_feed_entries

\* C20: the name compared with the boundary in the prefix-take-while is the
\* rendered, length-limited file name: for every episode list, also one whose
\* templated names exceed the length limit, the missing list stops (exclusive)
\* at the first episode, newest first, whose length-limited name is the
\* boundary.
C20_TakeWhileComparesRealNames ==
    (sel.done /\ sel.last_downloaded_file # None) =>
        sel.missing_files_links =
            NewerThan(sel.all_feed_entries, SelRealNames, sel.last_downloaded_file[1])

\* the selection on the inputs of the state with fill_up_gaps set to a value
SelectedWith(fill_up_gaps) ==
    select_missing([sel.podcast_config EXCEPT !["fill_up_gaps"] = Some(fill_up_gaps)],
                   sel.platform, sel.last_run_date, sel.local_time,
                   sel.all_feed_entries, sel.downloaded_files_set)

\* the newest-first position of the newest episode saved under a name
NewestNamed(file_name) ==
    SetMin({ i \in 1..Len(sel.all_feed_entries) : SelRealNames[i] = file_name })

SomeFeedFileOnDisk ==
    \E i \in 1..Len(sel.all_feed_entries) : SelRealNames[i] \in sel.downloaded_files_set

\* C25: for the same feed list and the same on-disk set with at least one
\* feed file on disk, the boundary chosen with fill_up_gaps=true is never
\* newer than the one chosen with fill_up_gaps=false, and the missing list
\* with fill_up_gaps=true has the missing list with fill_up_gaps=false as a
\* prefix, also when several episodes render to the same name.
C25_GapFillExtendsSelection ==
    (sel.done /\ SomeFeedFileOnDisk) =>
        LET with_gaps == SelectedWith(TRUE)
            without_gaps == SelectedWith(FALSE)
        IN /\ sel.missing_files_links = SelectedWith(SelFillUpGaps).missing_files_links
           /\ with_gaps.last_downloaded_file # None
           /\ without_gaps.last_downloaded_file # None
           /\ NewestNamed(with_gaps.last_downloaded_file[1])
                 >= NewestNamed(without_gaps.last_downloaded_file[1])
           /\ IsPrefix(without_gaps.missing_files_links, with_gaps.missing_files_links)

\* the selection on the inputs of the state with another empty-directory
\* policy and another last-run date
SelectedUnder(policy, last_run_date) ==
    select_missing([sel.podcast_config EXCEPT !["if_directory_empty"] = Some(policy)],
                   sel.platform, last_run_date, sel.local_time,
                   sel.all_feed_entries, sel.downloaded_files_set)

\* the runs every selection is compared with: download_last without a
\* last-run date, and the policy that reads the last-run date with every date
\* of the pool.  The selections of the specification are made under every
\* policy of PolicyPool, so all of them are compared with each other.
OtherPolicyInputs ==
    { << <<"download_last">>, None >> } \cup ({ <<"download_since_last_run">> } \X LastRunPool)

\* C29: when the on-disk set of a feed is not empty the selection does not
\* depend on the if_directory_empty value or on the last-run date: runs that
\* differ only in those inputs select the same missing list and none of them
\* fails because of the policy string.
C29_PolicyIgnoredOnFiles ==
    (sel.done /\ sel.downloaded_files_set # {}) =>
        \A other_inputs \in OtherPolicyInputs :
            LET other == SelectedUnder(other_inputs[1], other_inputs[2])
            IN /\ ~sel.raised
               /\ ~other.raised
               /\ other.missing_files_links = sel.missing_files_links
               /\ other.last_downloaded_file = sel.last_downloaded_file

\* a directory with files, none of them of the feed, under a policy that
\* fails on an empty directory: the whole feed of several episodes is selected
C29_Witness ==
    /\ sel.done
    /\ sel.downloaded_files_set # {}
    /\ SelPolicy = <<"download_since_last_run">>
    /\ sel.last_run_date = None
    /\ ~sel.raised
    /\ Len(sel.missing_files_links) >= 2
    /\ SelectedUnder(<<"download_last">>, Some(Day(2024, 3, 10, 12))).missing_files_links
          = sel.missing_files_links

\* the names under which the download loop saves the selected episodes, in
\* the order of the missing list
SavedNames ==
    [i \in 1..Len(sel.missing_files_links) |-> RealName(sel.missing_files_links[i])]

\* C30: within one feed run, distinct selected episodes are saved under
\* distinct file names, so no transfer of the run overwrites a file written
\* by an earlier transfer of the same run, for every template and length
\* limit, also for names shortened by truncation.
C30_DistinctEpisodesDistinctNames ==
    (sel.done /\ ~sel.raised) =>
        \A i, j \in 1..Len(sel.missing_files_links) :
            sel.missing_files_links[i] # sel.missing_files_links[j]
                => SavedNames[i] # SavedNames[j]

-----------------------------------------------------------------------------
(* Run claims, stated on the states and steps of main *)

\* the podcasts list the run was configured with
ConfiguredPodcasts == dict_get(run.config_file_data, "podcasts", Some(<<>>))[1]

\* setup_configuration has returned a verified configuration
SetupDone == run.configuration # EmptyDict

\* the downloads_limit of the configuration the run starts with
StartLimit == setup_configuration(run.args, run.config_file_data).value["downloads_limit"]

\* a run that really downloads, under a limit
LimitedRun ==
    /\ SetupDone
    /\ ~run.dry_run
    /\ StartLimit # None

GivenLimit == StartLimit[1]

RemainingLimit == run.configuration["downloads_limit"][1]

LastOf(seq) == seq[Len(seq)]

\* C4: no episode whose real (length-limited) file name is in the snapshot of
\* the directory taken for the feed is passed to the transfer step in that run.
C4_NoOnDiskEpisodeTransferred ==
    pc = "feed" =>
        \A i \in 1..Len(cur.transferred) :
            cur.transferred[i].outcome # "dry_run"
                => cur.transferred[i].name \notin cur.downloaded_files_set

\* the limit's example: two feeds with 2 missing episodes each, none of them
\* ended in an error, and a limit of 1
LimitExample ==
    /\ pc = "done"
    /\ LimitedRun
    /\ GivenLimit = 1
    /\ Len(run.visited) = 2
    /\ \A i \in 1..2 : run.visited[i].missing = 2 /\ run.visited[i].stats.errors = 0

\* what holds in every state of a limited run
LimitKept ==
    LimitedRun =>
        /\ run.transfers <= GivenLimit
        /\ RemainingLimit >= 0
        /\ RemainingLimit = GivenLimit - run.transfers
        /\ (pc = "feed" /\ cur.limit_reached
                => cur.stats.errors = 0 /\ cur.queue = <<>>)
        /\ (LimitExample
                => /\ run.transfers = 1
                   /\ run.visited[1].calls = 1
                   /\ run.visited[2].calls = 0
                   /\ run.visited[2].fetched)

\* what every step does once the counter is at zero: nothing is transferred,
\* the loop of the feed breaks without an error, the next feed is entered
LimitStops ==
    (LimitedRun /\ RemainingLimit = 0) =>
        /\ run'.transfers = run.transfers
        /\ (pc = "feed" /\ cur.queue # <<>>
                => /\ pc' = "feed"
                   /\ cur'.limit_reached
                   /\ cur'.queue = <<>>
                   /\ cur'.stats = cur.stats
                   /\ cur'.transferred = cur.transferred)
        /\ (pc = "loop" /\ run.remaining # <<>>
                => pc' = "feed" /\ run'.remaining = run.remaining)

C7_FailedTransferLeavesCounters ==
    [][ (/\ pc = "feed" /\ pc' = "feed"
         /\ Len(cur'.transferred) = Len(cur.transferred) + 1
         /\ LastOf(cur'.transferred).outcome \in {"failed", "mkdir_error"})
        => /\ run'.configuration["downloads_limit"]
                = run.configuration["downloads_limit"]
           /\ cur'.stats.downloads = cur.stats.downloads ]_vars

\* C8: whatever happens while one feed is processed, the error is counted for
\* that feed and every feed of the podcasts list is processed exactly once, in
\* configuration order; a run that has ended has left no feed out.
C8_FeedIsolation ==
    SetupDone =>
        LET n == Len(run.visited)
        IN /\ n + Len(run.remaining) = Len(ConfiguredPodcasts)
           /\ \A i \in 1..n :
                 /\ run.visited[i].rss_link = ConfiguredPodcasts[i]["rss_link"]
                 /\ run.visited[i].stats.errors \in {0, 1}
           /\ \A i \in 1..Len(run.remaining) :
                 run.remaining[i] = ConfiguredPodcasts[n + i]
           /\ run.total_stats.errors
                 = Cardinality({ i \in 1..n : run.visited[i].stats.errors = 1 })
           /\ (pc = "feed" /\ cur.transferred # <<>>
                   /\ LastOf(cur.transferred).outcome = "mkdir_error"
                 => cur.stats.errors = 1 /\ cur.queue = <<>>)
           /\ (pc = "done" => run.remaining = <<>>)

C8_Witness ==
    /\ pc = "done"
    /\ SetupDone
    /\ Len(run.visited) = 2
    /\ run.visited[1].stats.errors = 1
    /\ run.visited[1].calls > 0
    /\ run.visited[2].calls > 0
    /\ run.visited[2].stats.errors = 0

\* the per-feed settings given on the command line (downloads_limit is the
\* counter of the run, not a setting of a feed)
GivenOnCommandLine ==
    { k \in DOMAIN run.args \ {"downloads_limit"} : run.args[k] # None }

\* C9 as stated: a key set on the command line and in the feed's own object has
\* the command line's value for that feed.
C9_CommandLineWins ==
    pc = "feed" =>
        \A k \in GivenOnCommandLine \cap DOMAIN cur.rss_source :
            cur.podcast_config[k] = run.args[k]

\* C9: a key set on the command line and in the feed's own object has the
\* value of the feed's object for that feed; a key set on the command line and
\* not in the feed's object has the command line's value.
C9_FeedObjectWins ==
    pc = "feed" =>
        \A k \in GivenOnCommandLine :
            cur.podcast_config[k] = IF k \in DOMAIN cur.rss_source
                                      THEN cur.rss_source[k]
                                      ELSE run.args[k]

C9_Witness ==
    /\ pc = "feed"
    /\ \E k \in GivenOnCommandLine \cap DOMAIN cur.rss_source :
          /\ cur.rss_source[k] # run.args[k]
          /\ cur.podcast_config[k] = cur.rss_source[k]
    /\ \E k \in GivenOnCommandLine \ DOMAIN cur.rss_source :
          cur.podcast_config[k] = run.args[k]

\* the positions of the podcasts list whose object lacks path or rss_link
FaultyEntries ==
    { i \in 1..Len(ConfiguredPodcasts) :
        \/ "path" \notin DOMAIN ConfiguredPodcasts[i]
        \/ "rss_link" \notin DOMAIN ConfiguredPodcasts[i] }

\* C10: if any entry of the podcasts list lacks path or rss_link, the run ends
\* with a non-zero exit code before any feed is fetched, any marker file is
\* touched or any file is transferred, wherever the faulty entry is.
C10_FaultyEntryStopsRun ==
    FaultyEntries # {} =>
        /\ pc \in {"start", "done"}
        /\ (pc = "done" => run.exit_code = Some(1))
        /\ ~run.fetched
        /\ ~run.marker_touched
        /\ run.transfers = 0
        /\ run.visited = <<>>
        /\ cur = Idle

C10_Witness ==
    /\ pc = "done"
    /\ FaultyEntries = {2}
    /\ "last_run_mark_file_path" \in DOMAIN run.config_file_data
    /\ run.exit_code = Some(1)
    /\ ~run.marker_touched

\* the feed being processed is enabled and has the given policy
FeedWithPolicy(policy) ==
    /\ pc = "feed"
    /\ dict_get(cur.podcast_config, "disable", Some(FALSE)) # Some(TRUE)
    /\ cur.podcast_config["if_directory_empty"] = Some(policy)

\* C13: with policy download_since_last_run and no reference date (no marker
\* path configured), resolving the policy, which is done for an empty on-disk
\* set, fails: the feed is counted as an error and no episode of it is
\* transferred.
C13_SinceLastRunNeedsMarker ==
    (/\ FeedWithPolicy(<<"download_since_last_run">>)
     /\ run.last_run_datetime = None
     /\ cur.downloaded_files_set = {}) =>
        /\ cur.stats.errors = 1
        /\ cur.stats.downloads = 0
        /\ cur.missing_files_links = <<>>
        /\ cur.queue = <<>>
        /\ cur.transferred = <<>>

C13_Witness ==
    /\ FeedWithPolicy(<<"download_since_last_run">>)
    /\ run.last_run_datetime = None
    /\ "last_run_mark_file_path" \notin DOMAIN run.config_file_data
    /\ cur.fetched
    /\ cur.all_feed_entries # <<>>
    /\ cur.directory_files = {}
    /\ cur.stats.errors = 1
    /\ cur.transferred = <<>>

\* C14 as stated: a feed whose if_directory_empty value matches no recognised
\* form fails with an error before any download for that feed, whether its
\* directory is empty or not.
C14_UnknownPolicyAlwaysFails ==
    FeedWithPolicy(<<"bogus">>) =>
        /\ cur.stats.errors = 1
        /\ cur.transferred = <<>>

\* C14: a feed whose if_directory_empty value matches no recognised form fails
\* with an error before any download for that feed when its on-disk set is
\* empty; when the on-disk set is not empty the value is not looked at and the
\* selection ends without an error.
C14_UnknownPolicyFailsOnEmptyDirectory ==
    FeedWithPolicy(<<"bogus">>) =>
        /\ (cur.downloaded_files_set = {}
               => /\ cur.stats.errors = 1
                  /\ cur.stats.downloads = 0
                  /\ cur.queue = <<>>
                  /\ cur.transferred = <<>>)
        /\ (cur.downloaded_files_set # {}
               /\ cur.queue = Reverse(cur.missing_files_links)
               => cur.stats.errors = 0)

C14_Witness ==
    /\ FeedWithPolicy(<<"bogus">>)
    /\ cur.fetched
    /\ cur.all_feed_entries # <<>>
    /\ cur.directory_files = {}
    /\ cur.stats.errors = 1
    /\ cur.transferred = <<>>

\* the configuration of the run passes setup_configuration
ConfigurationValid == ~setup_configuration(run.args, run.config_file_data).raised

\* the feeds of the run whose processing was counted as an error
FeedsInError == { i \in 1..Len(run.visited) : run.visited[i].stats.errors > 0 }

\* C17: a finished run returns 0 when its configuration is valid and none of
\* its feeds was counted as an error, and 1 (non-zero) when the configuration
\* verification fails or at least one of its feeds was counted as an error.
C17_ExitCode ==
    pc = "done" =>
        /\ (ConfigurationValid /\ FeedsInError = {} => run.exit_code = Some(0))
        /\ (~ConfigurationValid \/ FeedsInError # {}
               => run.exit_code # None /\ run.exit_code # Some(0))

\* two feeds, one counted as an error and one that downloaded: the run fails
C17_Witness ==
    /\ pc = "done"
    /\ ConfigurationValid
    /\ run.exit_code = Some(1)
    /\ FeedsInError # {}
    /\ \E i \in 1..Len(run.visited) :
          run.visited[i].stats.errors = 0 /\ run.visited[i].stats.downloads > 0

\* a dry run whose configuration has passed setup_configuration
DryRun == SetupDone /\ run.dry_run

\* the missing episodes in the order the loop takes them, oldest first
InLoopOrder(locals) == Reverse(locals.missing_files_links)

\* how many of the missing episodes of the feed a run that is not dry would
\* hand to download_function under the counter the feed starts with
WouldDownload(locals) ==
    LET n == Len(locals.missing_files_links)
        l == run.configuration["downloads_limit"]
    IN IF l = None \/ locals.podcast_config["download_delay"] = None THEN 0
       ELSE IF l[1] <= 0 THEN 0
       ELSE IF l[1] < n THEN l[1] ELSE n

\* in every state of a dry run: nothing was transferred, the counter is the
\* one the run started with, and a feed whose loop has ended has counted every
\* episode a real run would have downloaded
DryRunState ==
    DryRun =>
        /\ run.transfers = 0
        /\ run.configuration["downloads_limit"] = StartLimit
        /\ (pc = "feed" =>
              /\ \A i \in 1..Len(cur.transferred) : cur.transferred[i].outcome = "dry_run"
              /\ cur.stats.downloads = Len(cur.transferred)
              /\ (cur.queue = <<>> =>
                    /\ cur.stats.downloads >= WouldDownload(cur)
                    /\ \A i \in 1..WouldDownload(cur) :
                          cur.transferred[i].entity = InLoopOrder(cur)[i]))

\* no step of a dry run changes the files of the directory or the counter
DryRunStep ==
    DryRun =>
        /\ run'.configuration["downloads_limit"] = run.configuration["downloads_limit"]
        /\ run'.transfers = run.transfers
        /\ (pc = "feed" /\ pc' = "feed" => cur'.directory_files = cur.directory_files)

\* C18: in a dry run download_function is never called, the files on disk and
\* the global downloads counter stay as they were, and every episode a real
\* run would have downloaded is counted in the downloads statistic.
C18_DryRun == [](DryRunState) /\ [][DryRunStep]_vars

\* a dry run has gone through a feed with three missing episodes
C18_Witness ==
    /\ DryRun
    /\ pc = "feed"
    /\ cur.queue = <<>>
    /\ WouldDownload(cur) >= 1
    /\ Len(cur.missing_files_links) = 3
    /\ cur.stats.downloads = 3
    /\ run.transfers = 0

\* the calls of download_function of the feed that saved no file
FailedCalls(outcomes) ==
    { i \in 1..Len(cur.transferred) : cur.transferred[i].outcome \in outcomes }

\* a step in which download_function was called and saved no file leaves the
\* later episodes in the loop and counts no error
FailureKeepsLoop(outcomes) ==
    (/\ pc = "feed" /\ pc' = "feed"
     /\ Len(cur'.transferred) = Len(cur.transferred) + 1
     /\ LastOf(cur'.transferred).outcome \in outcomes)
    => /\ cur'.queue = Tail(cur.queue)
       /\ cur'.stats.errors = cur.stats.errors

\* a feed whose loop has ended after a failed call has called download_function
\* for every missing episode, unless the limit stopped it, and has no error
FailureKeepsFeed(outcomes) ==
    (pc = "feed" /\ cur.queue = <<>> /\ FailedCalls(outcomes) # {})
    => /\ cur.stats.errors = 0
       /\ (~cur.limit_reached
              => /\ Len(cur.transferred) = Len(cur.missing_files_links)
                 /\ \A i \in 1..Len(cur.transferred) :
                       cur.transferred[i].entity = InLoopOrder(cur)[i])

\* C19: a failure of download_function for one episode does not abort the
\* feed: every later missing episode of the feed is still attempted in the run,
\* subject only to the global limit, and the feed is not counted as an error.
C19_TransferFailureKeepsFeed ==
    /\ [](FailureKeepsFeed({"failed", "mkdir_error"}))
    /\ [][FailureKeepsLoop({"failed", "mkdir_error"})]_vars

\* the episodes download_function (or the dry run's count) was reached for
Attempted(locals) == [i \in 1..Len(locals.transferred) |-> locals.transferred[i].entity]

\* C21: within one feed the missing episodes are transferred oldest first: the
\* sequence of transfer invocations is a prefix of the reverse of the
\* newest-first missing list.
C21_OldestFirst ==
    pc = "feed" => IsPrefix(Attempted(cur), Reverse(cur.missing_files_links))

\* two real transfers of a feed with three missing episodes: the oldest, then
\* the one after it
C21_Witness ==
    /\ pc = "feed"
    /\ ~run.dry_run
    /\ Len(cur.missing_files_links) = 3
    /\ Len(cur.transferred) = 2
    /\ cur.transferred[1].entity = cur.missing_files_links[3]
    /\ cur.transferred[2].entity = cur.missing_files_links[2]
    /\ cur.transferred[1].entity.published_date.day
          < cur.transferred[2].entity.published_date.day

\* the feed being processed has a positive download_delay
DelayedFeed ==
    /\ pc = "feed"
    /\ cur.podcast_config["download_delay"] # None
    /\ cur.podcast_config["download_delay"][1] > 0

\* every download reached so far, real or dry, was preceded by one wait
WaitPerDownload == DelayedFeed => cur.waits = Len(cur.transferred)

\* a step that reaches a download has waited exactly once just before it, and
\* a step that finds the limit exhausted has not waited
WaitBeforeDownload ==
    (DelayedFeed /\ pc' = "feed") =>
        /\ (Len(cur'.transferred) = Len(cur.transferred) + 1
               => cur'.waits = cur.waits + 1)
        /\ (cur'.limit_reached => cur'.waits = cur.waits)
        /\ (Len(cur'.transferred) = Len(cur.transferred) => cur'.waits = cur.waits)

CountedDownloads ==
    run.total_stats.downloads + (IF pc = "feed" THEN cur.stats.downloads ELSE 0)

\* C26: in a dry run the number of episodes counted as downloads over all
\* feeds never exceeds the configured downloads_limit, the bound of a real run.
C26_DryRunCountWithinLimit ==
    (DryRun /\ StartLimit # None) => CountedDownloads <= StartLimit[1]

\* the value a key has below the command line: the configuration file's if
\* the file has the key, else the default
BelowCommandLine(key) ==
    IF key \in DOMAIN run.config_file_data THEN run.config_file_data[key]
    ELSE DEFAULT_CONFIGURATION[key]

\* C27: a command-line option that is not given never overrides a value of the
\* configuration file or the defaults: for downloads_limit, if_directory_empty
\* and download_delay, when the flag is absent the merged configuration holds
\* the configuration file's value if present and otherwise the default, never
\* None.
C27_AbsentFlagKeepsValue ==
    (SetupDone /\ run.transfers = 0) =>
        \A key \in {"downloads_limit", "if_directory_empty", "download_delay"} :
            run.args[key] = None
                => /\ run.configuration[key] # None
                   /\ run.configuration[key] = BelowCommandLine(key)

-----------------------------------------------------------------------------
(* SpecRerun: main run again and again over one feed; the feed does not
   change and the directory keeps what the transfers have written *)

RerunFeed == [bozo |-> FALSE, has_title |-> TRUE, entries |-> <<RawC, RawB, RawA>>]

RerunOptionsPool ==
    { Dict({ <<"name", Some("n")>>, <<"fill_up_gaps", Some(f)>> }) : f \in BOOLEAN }

RerunConfigFile == Dict({ <<"podcasts", Some(<< PodcastObject(1, {"path", "rss_link"}) >>)>> })

RerunArgsPool ==
    { parse_args(Some(l), Some(<<"download_all_from_feed">>), None, Some(0), FALSE) :
        l \in 1..MaxLimit }

InitRerun ==
    /\ pc = "start"
    /\ sel = Idle
    /\ cur = Idle
    /\ \E args \in RerunArgsPool, options \in RerunOptionsPool, local_time \in NowPool :
         LET podcast_config ==
                 feed_layers(setup_configuration(args, RerunConfigFile).value,
                             dict_update(PodcastObject(1, {"path", "rss_link"}), options))
         IN \E directory_files \in
                  SUBSET DirectoryCandidates(podcast_config, "linux", RerunFeed) :
               run = RunStart(args, RerunConfigFile, "linux", local_time,
                              Some([feed |-> RerunFeed, options |-> options,
                                    directory_files |-> directory_files]),
                              1, <<>>)

\* the feed and the directory are those of the world the runs share
FeedStartWorld ==
    /\ pc = "loop"
    /\ run.remaining # <<>>
    /\ run.world # None
    /\ FeedStartOn(dict_update(Head(run.remaining), run.world[1].options),
                   run.world[1].feed, run.world[1].directory_files)

\* the program is started again, with the same command line
Rerun ==
    /\ pc = "done"
    /\ run.world # None
    /\ run.run_no < MaxRuns
    /\ run' = RunStart(run.args, run.config_file_data, run.platform, run.local_time,
                       run.world, run.run_no + 1, run.previous)
    /\ pc' = "start"
    /\ UNCHANGED <<sel, cur>>

NextRerun == Setup \/ FeedStartWorld \/ DownloadNext \/ FeedReturn \/ Finish \/ Rerun

SpecRerun == InitRerun /\ [][NextRerun]_vars

-----------------------------------------------------------------------------
(* Rerun claims, stated on the selection of the run after a failed transfer *)

\* the calls of the previous run that left no file in the directory the feed
\* of this run has read
FailedBefore ==
    { i \in 1..Len(run.previous) :
        /\ run.previous[i].outcome \in {"failed", "mkdir_error"}
        /\ run.previous[i].name \notin cur.downloaded_files_set }

\* the feed of this run has an episode on disk that is newer / older than the
\* one at position p (newest first)
EpisodeOnDisk(q) ==
    to_real_file_name(cur.podcast_config, run.platform, cur.all_feed_entries[q])
        \in cur.downloaded_files_set

PositionOf(entity) ==
    CHOOSE q \in 1..Len(cur.all_feed_entries) : cur.all_feed_entries[q] = entity

NewerOnDisk(p) == \E q \in 1..(p - 1) : EpisodeOnDisk(q)

OlderOnDisk(p) == \E q \in (p + 1)..Len(cur.all_feed_entries) : EpisodeOnDisk(q)

SelectedAgain(entity) == entity \in Range(cur.missing_files_links)

InNextRun == pc = "feed" /\ run.run_no > 1

\* C5 as stated: an episode whose transfer failed in one run is selected again
\* in the next run over the same feed, also when newer episodes were
\* transferred in the same run, for both fill_up_gaps settings.
C5_FailedEpisodeSelectedAgain ==
    InNextRun =>
        \A i \in FailedBefore : SelectedAgain(run.previous[i].entity)

\* C5: an episode whose transfer failed in one run is selected again in the
\* next run when the directory is not empty and holds no newer episode of the
\* feed; when a newer episode is on disk it is not selected again with
\* fill_up_gaps off, and with fill_up_gaps on it is selected again exactly when
\* an older episode of the feed is on disk.
C5_FailedEpisodeSelectedAgainUnlessNewerOnDisk ==
    InNextRun =>
        \A i \in FailedBefore :
            LET entity == run.previous[i].entity
                p == PositionOf(entity)
                fill_up_gaps == cur.podcast_config["fill_up_gaps"] = Some(TRUE)
            IN /\ (~NewerOnDisk(p) /\ cur.downloaded_files_set # {}
                      => SelectedAgain(entity))
               /\ (NewerOnDisk(p) /\ ~fill_up_gaps => ~SelectedAgain(entity))
               /\ (NewerOnDisk(p) /\ fill_up_gaps
                      => (SelectedAgain(entity) <=> OlderOnDisk(p)))

C5_Witness ==
    /\ InNextRun
    /\ \E i \in FailedBefore :
          /\ \E j \in (i + 1)..Len(run.previous) : run.previous[j].outcome = "ok"
          /\ NewerOnDisk(PositionOf(run.previous[i].entity))
          /\ OlderOnDisk(PositionOf(run.previous[i].entity))
          /\ SelectedAgain(run.previous[i].entity)


-----------------------------------------------------------------------------
(* SpecLimit: limit_file_name applied to one file name under one limit *)

NameChars == {"a", "b", "."}

FileNamePool == SeqsUpTo(NameChars, MaxNameLen)

\* the limits the platforms of the model give, and every length from nothing
\* to one more than the longest name
LengthLimitPool ==
    0..(MaxNameLen + 1)
        \cup { get_system_file_name_limit([path |-> Some(pp[2])], pp[1]) : pp \in PlatformPaths }

InitLimit ==
    /\ pc = "limit"
    /\ run = Idle
    /\ cur = Idle
    /\ \E file_name \in FileNamePool, maximum_length \in LengthLimitPool :
          sel = [file_name |-> file_name, maximum_length |-> maximum_length,
                 result |-> None]

Limit ==
    /\ pc = "limit"
    /\ sel' = [sel EXCEPT !.result = Some(limit_file_name(sel.maximum_length, sel.file_name))]
    /\ pc' = "limited"
    /\ UNCHANGED <<run, cur>>

NextLimit == Limit

SpecLimit == InitLimit /\ [][NextLimit]_vars

-----------------------------------------------------------------------------
(* Truncation claims *)

-----------------------------------------------------------------------------
(* SpecNormalize: the entities of one raw feed, lines 330-332 of utils.py *)

RawLink(href, type) == [href |-> href, type |-> type]

\* links of an allowed type to two files, a link of a type that is not
\* allowed, and a link of an allowed type without href
RawLinkPool ==
    { RawLink(Some([file_name |-> <<"x">>, file_extension |-> MP3]), "audio/mpeg"),
      RawLink(Some([file_name |-> <<"y">>, file_extension |-> MP3]), "audio/mpeg"),
      RawLink(Some([file_name |-> <<"x">>, file_extension |-> MP3]), "text/html"),
      RawLink(None, "audio/mpeg") }

\* entries with a publish date and up to two links, and one without a date
RawEntryPool ==
    { [published_parsed |-> Some(Day(2024, 3, 10, 8)), title |-> t, links |-> l] :
        t \in { <<"a">>, <<"b">> }, l \in SeqsUpTo(RawLinkPool, 2) }
    \cup { [published_parsed |-> None, title |-> <<"a">>,
            links |-> << RawLink(Some([file_name |-> <<"x">>, file_extension |-> MP3]),
                                 "audio/mpeg") >>] }

InitNormalize ==
    /\ pc = "normalize"
    /\ run = Idle
    /\ cur = Idle
    /\ \E entries \in SeqsUpTo(RawEntryPool, MaxRawLen) :
          sel = [podcast_config |-> DEFAULT_CONFIGURATION,
                 feed |-> [bozo |-> FALSE, has_title |-> TRUE, entries |-> entries],
                 all_feed_entries |-> None]

Normalize ==
    /\ pc = "normalize"
    /\ sel' = [sel EXCEPT !.all_feed_entries =
                              Some(all_feed_entries_of(sel.podcast_config, sel.feed))]
    /\ pc' = "normalized"
    /\ UNCHANGED <<run, cur>>

NextNormalize == Normalize

SpecNormalize == InitNormalize /\ [][NextNormalize]_vars

-----------------------------------------------------------------------------
(* Normalisation claims *)

AllowedMimeTypes == { x[2] : x \in sel.podcast_config["podcast_extensions"][1] }

\* the (entry, link) positions of the raw feed of a dated entry and a link of
\* an allowed type
AllowedPairs ==
    { p \in (1..Len(sel.feed.entries)) \X (1..2) :
        /\ p[2] <= Len(sel.feed.entries[p[1]].links)
        /\ sel.feed.entries[p[1]].published_parsed # None
        /\ sel.feed.entries[p[1]].links[p[2]].type \in AllowedMimeTypes }

\* those of them whose link has an href
AllowedPairsWithHref ==
    { p \in AllowedPairs : sel.feed.entries[p[1]].links[p[2]].href # None }

\* feed order, then the order of the links of one entry
PairBefore(p, q) == p[1] < q[1] \/ (p[1] = q[1] /\ p[2] < q[2])

RankIn(pairs, p) == Cardinality({ q \in pairs : PairBefore(q, p) }) + 1

\* the entities are, in order, one for each of the pairs
EmitsExactly(pairs) ==
    LET emitted == sel.all_feed_entries[1]
    IN /\ Len(emitted) = Cardinality(pairs)
       /\ \A p \in pairs :
             LET e == emitted[RankIn(pairs, p)]
                 rss_entry == sel.feed.entries[p[1]]
                 link == rss_entry.links[p[2]]
             IN /\ e.title = rss_entry.title
                /\ e.published_date = rss_entry.published_parsed[1]
                /\ e.type = link.type
                /\ Some(e.link) = link.href
       /\ \A i \in 1..Len(emitted) : emitted[i].type \in AllowedMimeTypes

\* C22 as stated: one episode, in order, for each (entry, link) pair of a
\* dated entry and a link of an allowed MIME type.
C22_OneEpisodePerAllowedLink ==
    pc = "normalized" => EmitsExactly(AllowedPairs)

\* C22: one episode, in feed order and link order, for each (entry, link) pair
\* of a dated entry and a link of an allowed MIME type that has an href;
\* entries without a date or without links, links without an href and links
\* of another MIME type contribute nothing.
C22_OneEpisodePerAllowedLinkWithHref ==
    pc = "normalized" => EmitsExactly(AllowedPairsWithHref)

\* an entry without a date, then an entry whose two allowed links come out in
\* their order
C22_Witness ==
    /\ pc = "normalized"
    /\ Len(sel.feed.entries) = 2
    /\ sel.feed.entries[1].published_parsed = None
    /\ Len(sel.feed.entries[2].links) = 2
    /\ AllowedPairsWithHref = { <<2, 1>>, <<2, 2>> }
    /\ Len(sel.all_feed_entries[1]) = 2
    /\ sel.all_feed_entries[1][1].link.file_name = <<"y">>
    /\ sel.all_feed_entries[1][2].link.file_name = <<"x">>


-----------------------------------------------------------------------------
(* SpecDayLabel: the date a download_from_<day of month> policy resolves to,
   lines 282-285 of utils.py *)

\* the label of day n of a month as a user writes it: 1st, 2nd, 3rd, 4th, ...
OrdinalLabel(n) ==
    LET digits == IF n < 10 THEN << Digit(n) >> ELSE << Digit(n \div 10), Digit(n % 10) >>
        suffix == IF n \in {1, 21, 31} THEN <<"s", "t">>
                  ELSE IF n \in {2, 22} THEN <<"n", "d">>
                  ELSE IF n \in {3, 23} THEN <<"r", "d">>
                  ELSE <<"t", "h">>
    IN digits \o suffix

DaysOfMonth == 1..31

\* what datetime.now() gives: days early and late in a month, after months of
\* 31, 30, 29 and 28 days, and in January
TodayPool ==
    { Day(2024, 3, 5, 12), Day(2024, 3, 31, 12), Day(2023, 3, 29, 12),
      Day(2024, 5, 15, 12), Day(2024, 1, 10, 12), Day(2024, 8, 1, 12),
      Day(2024, 7, 30, 12) }

InitDayLabel ==
    /\ pc = "label"
    /\ run = Idle
    /\ cur = Idle
    /\ \E n \in DaysOfMonth, local_time \in TodayPool :
          sel = [day_of_month |-> n,
                 configuration_value |-> <<"download_from_", OrdinalLabel(n)>>,
                 local_time |-> local_time, from_date |-> None]

ResolveDayLabel ==
    /\ pc = "label"
    /\ LET day_label == parse_day_label(sel.configuration_value[2])
           from_date == IF day_label.raised THEN Raised
                        ELSE get_label_to_date(day_label.value, sel.local_time)
       IN sel' = [sel EXCEPT !.from_date =
                     Some(IF from_date.raised THEN Raised ELSE Returned(from_date.value))]
    /\ pc' = "resolved"
    /\ UNCHANGED <<run, cur>>

NextDayLabel == ResolveDayLabel

SpecDayLabel == InitDayLabel /\ [][NextDayLabel]_vars

-----------------------------------------------------------------------------
(* Day label claims *)

ValidDate(dt) ==
    /\ dt.month \in 1..12
    /\ dt.day \in 1..DaysInMonth(dt.year, dt.month)

\* the month before the one of dt, as <<year, month>>
PreviousMonth(dt) == IF dt.month > 1 THEN <<dt.year, dt.month - 1>> ELSE <<dt.year - 1, 12>>

\* C24: download_from_<ordinal day of month N>, N in 1..31, resolves on every
\* current date to a valid calendar date that is not after today and whose
\* day of month is N, of the current month when today's day of month is >= N
\* and of the previous month otherwise; the resolution never fails.
C24_NthDayResolves ==
    pc = "resolved" =>
        LET today == sel.local_time
            r == sel.from_date[1]
        IN /\ ~r.raised
           /\ ValidDate(r.value)
           /\ DateGE(today, r.value)
           /\ r.value.day = sel.day_of_month
           /\ (today.day >= sel.day_of_month
                  => <<r.value.year, r.value.month>> = <<today.year, today.month>>)
           /\ (today.day < sel.day_of_month
                  => <<r.value.year, r.value.month>> = PreviousMonth(today))


-----------------------------------------------------------------------------
(* SpecConverge: main run again and again, without end, over one feed that
   does not change; fill_up_gaps is off, every run has the same limit of at
   least 1 and every transfer succeeds *)

\* the empty-directory policies that can be resolved without a marker file
ConvergePolicyPool ==
    { <<"download_last">>, <<"download_all_from_feed">>,
      <<"download_from_", 1, "_days">>, <<"download_last_", 2, "_episodes">> }

ConvergeOptions == Dict({ <<"name", Some("n")>>, <<"fill_up_gaps", Some(FALSE)>> })

ConvergeArgsPool ==
    { parse_args(Some(l), Some(policy), None, Some(0), FALSE) :
        l \in 1..MaxLimit, policy \in ConvergePolicyPool }

\* the real names of the feed, newest first
ConvergeNames(args) ==
    LET podcast_config ==
            feed_layers(setup_configuration(args, RerunConfigFile).value,
                        dict_update(PodcastObject(1, {"path", "rss_link"}), ConvergeOptions))
        entries == all_feed_entries_of(podcast_config, RerunFeed)
    IN [i \in 1..Len(entries) |-> to_real_file_name(podcast_config, "linux", entries[i])]

\* the directory is empty or holds a run of consecutive episodes of the feed
InitConverge ==
    /\ pc = "start"
    /\ sel = Idle
    /\ cur = Idle
    /\ \E args \in ConvergeArgsPool, local_time \in NowPool :
         LET names == ConvergeNames(args)
         IN \E a \in 1..(Len(names) + 1), b \in 0..Len(names) :
               run = RunStart(args, RerunConfigFile, "linux", local_time,
                              Some([feed |-> RerunFeed, options |-> ConvergeOptions,
                                    directory_files |-> { names[i] : i \in a..b }]),
                              1, <<>>)

\* one iteration of the download loop in which the transfer, if there is one,
\* writes its file
DownloadNextOk ==
    /\ DownloadNext
    /\ (Len(cur'.transferred) > Len(cur.transferred)
           => LastOf(cur'.transferred).outcome = "ok")

\* the program is started again with the same command line; the number of the
\* run is not counted beyond MaxRuns
RerunForever ==
    /\ pc = "done"
    /\ run.world # None
    /\ run' = RunStart(run.args, run.config_file_data, run.platform, run.local_time,
                       run.world,
                       IF run.run_no < MaxRuns THEN run.run_no + 1 ELSE MaxRuns,
                       run.previous)
    /\ pc' = "start"
    /\ UNCHANGED <<sel, cur>>

NextConverge ==
    Setup \/ FeedStartWorld \/ DownloadNextOk \/ FeedReturn \/ Finish \/ RerunForever

\* The program is sequential and is started again whenever it has ended: some
\* step of NextConverge is possible in every state and it is taken.  This is
\* WF_vars(NextConverge), written without ENABLED because NextConverge is
\* never disabled.
SpecConverge == InitConverge /\ [][NextConverge]_vars /\ []<><<NextConverge>>_vars

-----------------------------------------------------------------------------
(* Convergence claims *)

\* selection has returned no missing episode
NothingMissing ==
    /\ pc = "feed"
    /\ cur.fetched
    /\ cur.stats.errors = 0
    /\ cur.missing_files_links = <<>>

\* the newest-first positions of the feed whose file is in a directory
PositionsOnDisk(directory_files) ==
    { i \in 1..Len(ConvergeNames(run.args)) : ConvergeNames(run.args)[i] \in directory_files }

Contiguous(positions) ==
    \A i \in positions, j \in positions, k \in 1..Len(ConvergeNames(run.args)) :
        (i < k /\ k < j) => k \in positions

\* the feed files on disk are consecutive episodes of the feed
ContiguousOnDisk ==
    /\ Contiguous(PositionsOnDisk(run.world[1].directory_files))
    /\ (pc = "feed" => Contiguous(PositionsOnDisk(cur.directory_files)))

\* a transfer never writes a file that is on disk, so that no episode is
\* transferred a second time
TransferredOnce ==
    (pc = "feed" /\ pc' = "feed" /\ Len(cur'.transferred) > Len(cur.transferred))
        => /\ LastOf(cur'.transferred).name \notin cur.directory_files
           /\ LastOf(cur'.transferred).name \in cur'.directory_files

=============================================================================
